---- MODULE Spec2Model ----
(***************************************************************************)
(* Model of nanobot/agent/context.py: the message mutators, the media      *)
(* encoder and the ContextBuilder (system prompt and message list).        *)
(*                                                                         *)
(* A Python str is a sequence of chunks (TLA+ strings) whose concatenation *)
(* is the str: "" is <<>>, s + t is s \o t.  An optional value (X | None)  *)
(* is None or Some(v).  A dict is a record holding exactly the keys the    *)
(* dict holds.  A call that raises yields Raise(exc), one that returns     *)
(* yields Return(v).                                                       *)
(***************************************************************************)
EXTENDS Integers, Sequences, FiniteSets, TLC

VARIABLES
    no_xml_skills,    \* ContextBuilder.no_xml_skills, fixed by __init__
    workspace_files,  \* bootstrap file name -> None (absent) | Some(content)
    memory_context,   \* what MemoryStore.get_memory_context() returns
    skills_catalog,   \* what SkillsLoader.list_skills() returns
    always_skills,    \* what SkillsLoader.get_always_skills() returns
    always_content,   \* what SkillsLoader.load_skills_for_context() returns
    skills_summary,   \* what SkillsLoader.build_skills_summary() returns
    clock,            \* the minute datetime.now() reads
    fs,               \* media path -> "missing" | "dir" | "file" | "locked"
    messages,         \* the caller-owned message list the mutators extend
    input,            \* the arguments of the pending call (pure-function specs)
    last              \* the last call: its name, arguments and outcome

vars == <<no_xml_skills, workspace_files, memory_context, skills_catalog,
          always_skills, always_content, skills_summary, clock, fs,
          messages, input, last>>

collaborators == <<workspace_files, memory_context, skills_catalog,
                   always_skills, always_content, skills_summary>>

-----------------------------------------------------------------------------
(* Bounds of the model *)

MaxSkillNames == 2
MaxClock == 1
MaxHistory == 2
MaxMedia == 2
MaxMessages == 2

-----------------------------------------------------------------------------
(* Python values *)

None == [some |-> FALSE]
Some(v) == [some |-> TRUE, val |-> v]

\* Python truthiness of an optional str or list: None, "" and [] are falsy
Truthy(o) == o.some /\ o.val # <<>>

Return(v) == [raised |-> FALSE, val |-> v]
Raise(exc) == [raised |-> TRUE, exc |-> exc]

NoCall == [op |-> "none"]
NoInput == [op |-> "none"]

SeqsUpTo(S, n) == UNION {[1..k -> S] : k \in 0..n}

RECURSIVE Join(_, _)
\* sep.join(parts) on a list of str
Join(parts, sep) ==
    IF parts = <<>> THEN <<>>
    ELSE IF Len(parts) = 1 THEN parts[1]
    ELSE parts[1] \o sep \o Join(Tail(parts), sep)

IsPrefix(s, t) == Len(s) <= Len(t) /\ SubSeq(t, 1, Len(s)) = s
IsSuffix(s, t) == Len(s) <= Len(t) /\ SubSeq(t, Len(t) - Len(s) + 1, Len(t)) = s
Count(t, chunk) == Cardinality({i \in 1..Len(t) : t[i] = chunk})
HasChunk(t, chunk) == \E i \in 1..Len(t) : t[i] = chunk
FirstIndex(t, chunk) == CHOOSE i \in 1..Len(t) :
                            t[i] = chunk /\ \A j \in 1..(i - 1) : t[j] # chunk

-----------------------------------------------------------------------------
(* ContextBuilder: the system prompt *)

BOOTSTRAP_FILES == <<"AGENTS.md", "SOUL.md", "USER.md">>

\* the fixed separator between prompt sections
SEP == "\n\n---\n\n"

MEMORY_HEAD == "# Memory\n\n"
COMPACT_HEAD == "# Skills\n\nAvailable skills: "
LOAD_HEAD == "Load details with read_file: "
ACTIVE_HEAD == "# Active Skills\n\n"

\* str(self.workspace.expanduser().resolve())
workspace_path == "/home/bot/.nanobot/workspace"

platform_system == "Linux"
platform_machine == "x86_64"
python_version == "3.12.3"
time_zone == ""

\* datetime.now().strftime("%Y-%m-%d %H:%M (%A)"), minute precision
strftime(now) ==
    <<"2026-11-06 13:">> \o (IF now < 10 THEN <<"0">> ELSE <<>>)
    \o <<ToString(now), " (Friday)">>

_get_identity(now) ==
    LET tz == IF time_zone # "" THEN time_zone ELSE "UTC"
        system == platform_system
        runtime == <<IF system = "Darwin" THEN "macOS" ELSE system, " ",
                     platform_machine, ", Python ", python_version>>
    IN  <<"#\n\n## Current Time\n">> \o strftime(now) \o <<" (", tz, ")">>
        \o <<"\n\n## Runtime\n">> \o runtime
        \o <<"\n\n## Workspace\nYour workspace is at: ", workspace_path,
             "\n- Long-term memory: ", workspace_path, "/memory/MEMORY.md",
             "\n- History log: ", workspace_path,
             "/memory/HISTORY.md (grep-searchable)",
             "\n- Custom skills: ", workspace_path, "/skills/{skill-name}/SKILL.md",
             "\nWhen remembering something important, write to ", workspace_path,
             "/memory/MEMORY.md",
             "\nTo recall past events, grep ", workspace_path, "/memory/HISTORY.md">>

RECURSIVE bootstrap_parts(_)
\* the loop of _load_bootstrap_files over the file names still to visit
bootstrap_parts(filenames) ==
    IF filenames = <<>> THEN <<>>
    ELSE LET filename == Head(filenames)
             file == workspace_files[filename]
         IN  (IF file.some
                 THEN <<(<<"## ", filename, "\n\n">> \o file.val)>>
                 ELSE <<>>)
             \o bootstrap_parts(Tail(filenames))

_load_bootstrap_files ==
    LET parts == bootstrap_parts(BOOTSTRAP_FILES)
    IN  IF parts # <<>> THEN Join(parts, <<"\n\n">>) ELSE <<>>

\* the skill names in Python's str order
Lexicon == <<"a-skill", "b-skill">>
Rank(name) == CHOOSE i \in 1..Len(Lexicon) : Lexicon[i] = name
StrLess(a, b) == Rank(a) < Rank(b)

RECURSIVE sorted(_)
\* sorted(S) of a set of str
sorted(S) ==
    IF S = {} THEN <<>>
    ELSE LET least == CHOOSE x \in S : \A y \in S \ {x} : StrLess(x, y)
         IN  <<least>> \o sorted(S \ {least})

\* set(names) of a list
set(names) == {names[i] : i \in 1..Len(names)}

\* skill_names or self.skills.list_skills(), then the name of every entry
resolved_names(skill_names) ==
    IF Truthy(skill_names)
        THEN skill_names.val
        ELSE [i \in 1..Len(skills_catalog) |-> skills_catalog[i].name]

load_line(skill_name) ==
    <<LOAD_HEAD, workspace_path, "/skills/", skill_name,
      "/SKILL.md\n">>

compact_parts(skill_names) ==
    LET names == sorted(set(resolved_names(skill_names)))
    IN  IF names # <<>>
            THEN <<(<<COMPACT_HEAD>>
                    \o Join([i \in 1..Len(names) |-> <<names[i]>>], <<", ">>)
                    \o <<"\n">>)>>
                 \o [i \in 1..Len(names) |-> load_line(names[i])]
            ELSE <<>>

SUMMARY_HEAD ==
    "# Skills\n    \n    The following skills extend your capabilities. To use a skill, read its SKILL.md file using the read_file tool.\n    Skills with available=\"false\" need dependencies installed first - you can try installing them with apt/brew.\n    \n    "

\* progressive_parts without the test of the rendered content
progressive_parts_unchecked ==
    (IF always_skills # <<>>
        THEN <<(<<ACTIVE_HEAD>> \o always_content)>>
        ELSE <<>>)
    \o (IF skills_summary # <<>>
           THEN <<(<<SUMMARY_HEAD>> \o skills_summary)>>
           ELSE <<>>)

progressive_parts ==
    (IF always_skills # <<>> /\ always_content # <<>>
        THEN <<(<<ACTIVE_HEAD>> \o always_content)>>
        ELSE <<>>)
    \o (IF skills_summary # <<>>
           THEN <<(<<SUMMARY_HEAD>> \o skills_summary)>>
           ELSE <<>>)

\* prompt_parts with the memory section appended whether or not it is empty
prompt_parts_always_memory(skill_names, now) ==
    <<_get_identity(now)>>
    \o (IF _load_bootstrap_files # <<>> THEN <<_load_bootstrap_files>> ELSE <<>>)
    \o <<(<<MEMORY_HEAD>> \o memory_context)>>
    \o (IF no_xml_skills THEN compact_parts(skill_names) ELSE progressive_parts)

\* the list `parts` when build_system_prompt reaches its return
prompt_parts(skill_names, now) ==
    <<_get_identity(now)>>
    \o (IF _load_bootstrap_files # <<>> THEN <<_load_bootstrap_files>> ELSE <<>>)
    \o (IF memory_context # <<>>
           THEN <<(<<MEMORY_HEAD>> \o memory_context)>>
           ELSE <<>>)
    \o (IF no_xml_skills THEN compact_parts(skill_names) ELSE progressive_parts)

\* build_system_prompt with `parts` kept on the builder from one call to the next
build_system_prompt_retaining(skill_names, now) ==
    IF last.op = "build_system_prompt"
        THEN Join(<<last.result>> \o prompt_parts(skill_names, now), <<SEP>>)
        ELSE Join(prompt_parts(skill_names, now), <<SEP>>)

build_system_prompt(skill_names, now) ==
    Join(prompt_parts(skill_names, now), <<SEP>>)

-----------------------------------------------------------------------------
(* Message mutators *)

\* a str or a list held where either may stand (a message's content)
PyStr(t) == [py |-> "str", val |-> t]
PyList(l) == [py |-> "list", val |-> l]

\* add_assistant_message with reasoning_content tested against None only
add_assistant_message_not_none(msgs, content, tool_calls, reasoning_content) ==
    LET base == [role |-> "assistant",
                 content |-> PyStr(IF Truthy(content) THEN content.val ELSE <<>>)]
        with_calls == IF Truthy(tool_calls)
                          THEN base @@ ("tool_calls" :> tool_calls.val)
                          ELSE base
        msg == IF reasoning_content.some
                   THEN with_calls @@ ("reasoning_content" :> reasoning_content.val)
                   ELSE with_calls
    IN  Append(msgs, msg)

\* the list after add_assistant_message appended to it (the list it returns)
add_assistant_message(msgs, content, tool_calls, reasoning_content) ==
    LET base == [role |-> "assistant",
                 content |-> PyStr(IF Truthy(content) THEN content.val ELSE <<>>)]
        with_calls == IF Truthy(tool_calls)
                          THEN base @@ ("tool_calls" :> tool_calls.val)
                          ELSE base
        msg == IF Truthy(reasoning_content)
                   THEN with_calls @@ ("reasoning_content" :> reasoning_content.val)
                   ELSE with_calls
    IN  Append(msgs, msg)

add_tool_result(msgs, tool_call_id, tool_name, result) ==
    Append(msgs, [role |-> "tool",
                  tool_call_id |-> tool_call_id,
                  name |-> tool_name,
                  content |-> PyStr(result)])

-----------------------------------------------------------------------------
(* Media encoder *)

\* a path is its stem and its extension ("" when it has none)
Path(stem, ext) == [stem |-> stem, ext |-> ext]

\* mimetypes.guess_type(path)[0]: by extension, None when the extension is unknown
guess_type(path) ==
    CASE path.ext = ".png" -> Some(<<"image/", "png">>)
      [] path.ext = ".jpg" -> Some(<<"image/", "jpeg">>)
      [] path.ext = ".txt" -> Some(<<"text/", "plain">>)
      [] OTHER -> None

\* Path(path).is_file(): a regular file, whatever its permissions
is_file(path) == fs[path] \in {"file", "locked"}

\* the bytes of the regular files
file_bytes(path) ==
    CASE path.ext = ".png" -> <<137, 80, 78, 71>>
      [] path.ext = ".jpg" -> <<255, 216>>
      [] OTHER -> <<104, 105, 10>>

\* Path(path).read_bytes(): PermissionError on a file that may not be read
read_bytes(path) ==
    IF fs[path] = "file" THEN Return(file_bytes(path)) ELSE Raise("PermissionError")

B64_ALPHABET ==
    <<"A", "B", "C", "D", "E", "F", "G", "H", "I", "J", "K", "L", "M", "N", "O", "P",
      "Q", "R", "S", "T", "U", "V", "W", "X", "Y", "Z", "a", "b", "c", "d", "e", "f",
      "g", "h", "i", "j", "k", "l", "m", "n", "o", "p", "q", "r", "s", "t", "u", "v",
      "w", "x", "y", "z", "0", "1", "2", "3", "4", "5", "6", "7", "8", "9", "+", "/">>

RECURSIVE b64encode(_)
\* base64.b64encode(data).decode(), one chunk per character
b64encode(data) ==
    LET c(n) == B64_ALPHABET[n + 1] IN
    CASE Len(data) = 0 -> <<>>
      [] Len(data) = 1 ->
            <<c(data[1] \div 4), c((data[1] % 4) * 16), "=", "=">>
      [] Len(data) = 2 ->
            <<c(data[1] \div 4), c((data[1] % 4) * 16 + data[2] \div 16),
              c((data[2] % 16) * 4), "=">>
      [] OTHER ->
            <<c(data[1] \div 4), c((data[1] % 4) * 16 + data[2] \div 16),
              c((data[2] % 16) * 4 + data[3] \div 64), c(data[3] % 64)>>
            \o b64encode(SubSeq(data, 4, Len(data)))

image_block(mime, b64) ==
    [type |-> "image_url",
     image_url |-> [url |-> <<"data:">> \o mime \o <<";base64,">> \o b64]]

text_block(text) == [type |-> "text", text |-> text]

RECURSIVE encode_loop(_, _)
\* the for loop of _build_user_content over the paths still to visit, `images`
\* being the blocks built so far: the list when the loop ends, or the exception
encode_loop(media, images) ==
    IF media = <<>> THEN Return(images)
    ELSE LET path == Head(media)
             mime == guess_type(path)
         IN  IF ~is_file(path) \/ ~Truthy(mime) \/ mime.val[1] # "image/"
                 THEN encode_loop(Tail(media), images)
                 ELSE LET data == read_bytes(path)
                      IN  IF data.raised THEN data
                          ELSE encode_loop(Tail(media),
                                   Append(images,
                                          image_block(mime.val, b64encode(data.val))))

_build_user_content(text, media) ==
    IF ~Truthy(media) THEN Return(PyStr(text))
    ELSE LET images == encode_loop(media.val, <<>>)
         IN  IF images.raised THEN images
             ELSE IF images.val = <<>> THEN Return(PyStr(text))
             ELSE Return(PyList(images.val \o <<text_block(text)>>))

-----------------------------------------------------------------------------
(* ContextBuilder: the message list *)

session_footer(channel, chat_id) ==
    <<"\n\n## Current Session\nChannel: ">> \o channel
    \o <<"\nChat ID: ">> \o chat_id

\* str(x) of an optional str inside an f-string
fmt(o) == IF o.some THEN o.val ELSE <<"None">>

\* build_messages with `or` for `and` in the test of channel and chat_id
build_messages_either(history, current_message, skill_names, media, channel, chat_id, now) ==
    LET base == build_system_prompt(skill_names, now)
        system_prompt == IF Truthy(channel) \/ Truthy(chat_id)
                             THEN base \o session_footer(fmt(channel), fmt(chat_id))
                             ELSE base
        user_content == _build_user_content(current_message, media)
    IN  IF user_content.raised THEN user_content
        ELSE Return(<<[role |-> "system", content |-> PyStr(system_prompt)]>>
                    \o history
                    \o <<[role |-> "user", content |-> user_content.val]>>)

build_messages(history, current_message, skill_names, media, channel, chat_id, now) ==
    LET base == build_system_prompt(skill_names, now)
        system_prompt == IF Truthy(channel) /\ Truthy(chat_id)
                             THEN base \o session_footer(fmt(channel), fmt(chat_id))
                             ELSE base
        user_content == _build_user_content(current_message, media)
    IN  IF user_content.raised THEN user_content
        ELSE Return(<<[role |-> "system", content |-> PyStr(system_prompt)]>>
                    \o history
                    \o <<[role |-> "user", content |-> user_content.val]>>)

-----------------------------------------------------------------------------
(* Inputs and collaborator responses the model enumerates *)

SkillNameArgs == {None} \cup {Some(s) : s \in SeqsUpTo(set(Lexicon), MaxSkillNames)}
Catalogs == {<<>>, <<[name |-> "b-skill"], [name |-> "a-skill"]>>}
FileContents == {<<"Be concise.">>}
MemoryContexts == {<<>>, <<"## Long-term Memory\nUser likes tea.">>}
AlwaysSkills == {<<>>, <<"a-skill">>}
AlwaysContents == {<<>>, <<"### Skill: a-skill\n\nUse the a tool.">>}
SkillsSummaries == {<<>>, <<"<skills><skill available=\"true\"><name>a-skill</name></skill></skills>">>}

\* message-mutator arguments
Contents == {None, Some(<<>>), Some(<<"hi">>)}
TOOL_CALL ==
    [id |-> "call_1", type |-> "function",
     function |-> [name |-> "read_file", arguments |-> "{\"path\": \"notes.txt\"}"]]
ToolCallArgs == {None, Some(<<>>), Some(<<TOOL_CALL>>)}
Reasonings == {None, Some(<<>>), Some(<<"think">>)}
ToolResults == {<<>>, <<"ok">>}

\* media encoder arguments and file states
MediaPaths == {Path("photo", ".png"), Path("scan", ".jpg"),
               Path("notes", ".txt"), Path("README", "")}
FileStates == {"missing", "dir", "file", "locked"}
MediaArgs == {None} \cup {Some(m) : m \in SeqsUpTo(MediaPaths, MaxMedia)}
Texts == {<<>>, <<"hello">>}

\* build_messages arguments
HistoryMessages ==
    {[role |-> "user", content |-> PyStr(<<"earlier question">>)],
     [role |-> "assistant", content |-> PyStr(<<>>),
      tool_calls |-> <<TOOL_CALL>>]}
Histories == SeqsUpTo(HistoryMessages, MaxHistory)
Channels == {None, Some(<<>>), Some(<<"telegram">>)}
ChatIds == {None, Some(<<>>), Some(<<"42">>)}
SessionSkillArgs == {None, Some(<<"b-skill", "a-skill">>)}
\* the files of a session: one readable image, one image that may not be read,
\* one text file, one missing path
SessionFs ==
    [path \in MediaPaths |->
        CASE path.ext = ".png" -> "file"
          [] path.ext = ".jpg" -> "locked"
          [] path.ext = ".txt" -> "file"
          [] OTHER -> "missing"]

-----------------------------------------------------------------------------
(* Spec: one ContextBuilder, its workspace and collaborators, the clock *)

Init ==
    /\ no_xml_skills \in BOOLEAN
    /\ workspace_files = [f \in set(BOOTSTRAP_FILES) |-> None]
    /\ memory_context = <<>>
    /\ skills_catalog = <<>>
    /\ always_skills = <<>>
    /\ always_content = <<>>
    /\ skills_summary = <<>>
    /\ clock = 0
    /\ fs = <<>>
    /\ messages = <<>>
    /\ input = NoInput
    /\ last = NoCall

\* self.build_system_prompt(skill_names); `prev` keeps the outcome of the call
\* right before when it had the same argument and nothing changed in between
BuildSystemPrompt ==
    \E skill_names \in SkillNameArgs :
        /\ last' = [op |-> "build_system_prompt",
                    skill_names |-> skill_names,
                    now |-> clock,
                    result |-> build_system_prompt(skill_names, clock),
                    prev |-> IF last.op = "build_system_prompt"
                                /\ last.skill_names = skill_names
                                THEN Some([now |-> last.now, result |-> last.result])
                                ELSE None]
        /\ UNCHANGED <<no_xml_skills, collaborators, clock, fs, messages, input>>

\* a minute passes
Tick ==
    /\ clock < MaxClock
    /\ clock' = clock + 1
    /\ UNCHANGED <<no_xml_skills, collaborators, fs, messages, input, last>>

WriteBootstrapFile ==
    \E f \in set(BOOTSTRAP_FILES), c \in FileContents :
        /\ workspace_files[f] # Some(c)
        /\ workspace_files' = [workspace_files EXCEPT ![f] = Some(c)]
        /\ last' = NoCall
        /\ UNCHANGED <<no_xml_skills, memory_context, skills_catalog, always_skills,
                       always_content, skills_summary, clock, fs, messages, input>>

DeleteBootstrapFile ==
    \E f \in set(BOOTSTRAP_FILES) :
        /\ workspace_files[f].some
        /\ workspace_files' = [workspace_files EXCEPT ![f] = None]
        /\ last' = NoCall
        /\ UNCHANGED <<no_xml_skills, memory_context, skills_catalog, always_skills,
                       always_content, skills_summary, clock, fs, messages, input>>

MemoryChanges ==
    \E m \in MemoryContexts :
        /\ m # memory_context
        /\ memory_context' = m
        /\ last' = NoCall
        /\ UNCHANGED <<no_xml_skills, workspace_files, skills_catalog, always_skills,
                       always_content, skills_summary, clock, fs, messages, input>>

SkillsChange ==
    /\ \/ \E c \in Catalogs \ {skills_catalog} :
              /\ skills_catalog' = c
              /\ UNCHANGED <<always_skills, always_content, skills_summary>>
       \/ \E a \in AlwaysSkills \ {always_skills} :
              /\ always_skills' = a
              /\ UNCHANGED <<skills_catalog, always_content, skills_summary>>
       \/ \E ac \in AlwaysContents \ {always_content} :
              /\ always_content' = ac
              /\ UNCHANGED <<skills_catalog, always_skills, skills_summary>>
       \/ \E s \in SkillsSummaries \ {skills_summary} :
              /\ skills_summary' = s
              /\ UNCHANGED <<skills_catalog, always_skills, always_content>>
    /\ last' = NoCall
    /\ UNCHANGED <<no_xml_skills, workspace_files, memory_context, clock, fs,
                   messages, input>>

Next ==
    \/ BuildSystemPrompt
    \/ Tick
    \/ WriteBootstrapFile
    \/ DeleteBootstrapFile
    \/ MemoryChanges
    \/ SkillsChange

Spec == Init /\ [][Next]_vars

-----------------------------------------------------------------------------
(* SpecTurns: a caller extending its message list with the mutators *)

InitTurns ==
    /\ no_xml_skills = FALSE
    /\ workspace_files = [f \in set(BOOTSTRAP_FILES) |-> None]
    /\ memory_context = <<>>
    /\ skills_catalog = <<>>
    /\ always_skills = <<>>
    /\ always_content = <<>>
    /\ skills_summary = <<>>
    /\ clock = 0
    /\ fs = <<>>
    /\ messages = <<>>
    /\ input = NoInput
    /\ last = NoCall

AddAssistantMessage ==
    \E content \in Contents, tool_calls \in ToolCallArgs, reasoning_content \in Reasonings :
        /\ Len(messages) < MaxMessages
        /\ messages' = add_assistant_message(messages, content, tool_calls,
                                             reasoning_content)
        /\ last' = [op |-> "add_assistant_message",
                    messages |-> messages,
                    content |-> content,
                    tool_calls |-> tool_calls,
                    reasoning_content |-> reasoning_content,
                    result |-> messages']
        /\ UNCHANGED <<no_xml_skills, collaborators, clock, fs, input>>

AddToolResult ==
    \E result \in ToolResults :
        /\ Len(messages) < MaxMessages
        /\ messages' = add_tool_result(messages, "call_1", "read_file", result)
        /\ last' = [op |-> "add_tool_result",
                    messages |-> messages,
                    tool_call_id |-> "call_1",
                    tool_name |-> "read_file",
                    tool_result |-> result,
                    result |-> messages']
        /\ UNCHANGED <<no_xml_skills, collaborators, clock, fs, input>>

NextTurns == AddAssistantMessage \/ AddToolResult

SpecTurns == InitTurns /\ [][NextTurns]_vars

-----------------------------------------------------------------------------
(* SpecMedia: _build_user_content on every text, media list and file state *)

InitMedia ==
    /\ no_xml_skills = FALSE
    /\ workspace_files = [f \in set(BOOTSTRAP_FILES) |-> None]
    /\ memory_context = <<>>
    /\ skills_catalog = <<>>
    /\ always_skills = <<>>
    /\ always_content = <<>>
    /\ skills_summary = <<>>
    /\ clock = 0
    /\ fs \in [MediaPaths -> FileStates]
    /\ messages = <<>>
    /\ \E text \in Texts, media \in MediaArgs :
           input = [op |-> "_build_user_content", text |-> text, media |-> media]
    /\ last = NoCall

BuildUserContent ==
    /\ input.op = "_build_user_content"
    /\ last = NoCall
    /\ last' = [op |-> "_build_user_content",
                result |-> _build_user_content(input.text, input.media)]
    /\ UNCHANGED <<no_xml_skills, collaborators, clock, fs, messages, input>>

NextMedia == BuildUserContent

SpecMedia == InitMedia /\ [][NextMedia]_vars

-----------------------------------------------------------------------------
(* SpecMessages: build_messages on every argument list, in either mode *)

InitMessages ==
    /\ no_xml_skills \in BOOLEAN
    /\ workspace_files = [f \in set(BOOTSTRAP_FILES) |-> None]
    /\ memory_context = <<>>
    /\ skills_catalog = <<>>
    /\ always_skills = <<>>
    /\ always_content = <<>>
    /\ skills_summary \in SkillsSummaries
    /\ clock = 0
    /\ fs = SessionFs
    /\ messages = <<>>
    /\ \E history \in Histories, current_message \in Texts,
          skill_names \in SessionSkillArgs, media \in MediaArgs,
          channel \in Channels, chat_id \in ChatIds :
           input = [op |-> "build_messages",
                    history |-> history,
                    current_message |-> current_message,
                    skill_names |-> skill_names,
                    media |-> media,
                    channel |-> channel,
                    chat_id |-> chat_id]
    /\ last = NoCall

BuildMessages ==
    /\ input.op = "build_messages"
    /\ last = NoCall
    /\ last' = [op |-> "build_messages",
                result |-> build_messages(input.history, input.current_message,
                                          input.skill_names, input.media,
                                          input.channel, input.chat_id, clock)]
    /\ UNCHANGED <<no_xml_skills, collaborators, clock, fs, messages, input>>

NextMessages == BuildMessages

SpecMessages == InitMessages /\ [][NextMessages]_vars

-----------------------------------------------------------------------------
(* Reading a prompt back *)

Positions(t, chunk) ==
    SelectSeq([i \in 1..Len(t) |-> i], LAMBDA i : t[i] = chunk)

\* the names on the "Available skills:" line of a prompt, in the order written
NamesLine(p) ==
    LET h == FirstIndex(p, COMPACT_HEAD)
        e == CHOOSE j \in (h + 1)..Len(p) :
                 p[j] = "\n" /\ \A k \in (h + 1)..(j - 1) : p[k] # "\n"
    IN  SelectSeq(SubSeq(p, h + 1, e - 1), LAMBDA c : c # ", ")

\* the names the load-instruction lines of a prompt point at, in the order written
LoadNames(p) ==
    LET at == Positions(p, LOAD_HEAD)
    IN  [k \in 1..Len(at) |-> p[at[k] + 3]]

LoadLinesWellFormed(p) ==
    \A i \in 1..Len(p) :
        p[i] = LOAD_HEAD =>
            /\ i + 4 <= Len(p)
            /\ SubSeq(p, i, i + 4) =
                   <<LOAD_HEAD, workspace_path, "/skills/", p[i + 3], "/SKILL.md\n">>

StrictlyIncreasing(names) ==
    \A i, j \in 1..Len(names) : i < j => StrLess(names[i], names[j])

BuiltPrompt == last.op = "build_system_prompt"

\* which sections of the prompt have content, read from the workspace and the
\* collaborators (the skills section: from the resolved names or the responses)
BootstrapEmpty == \A f \in set(BOOTSTRAP_FILES) : ~workspace_files[f].some
MemoryEmpty == memory_context = <<>>
CompactSkillsEmpty ==
    IF Truthy(last.skill_names) THEN FALSE ELSE skills_catalog = <<>>
ActiveShown == always_skills # <<>> /\ always_content # <<>>
SkillsEmpty ==
    IF no_xml_skills THEN CompactSkillsEmpty
    ELSE ~ActiveShown /\ skills_summary = <<>>
NonEmptySections ==
    1 + (IF BootstrapEmpty THEN 0 ELSE 1) + (IF MemoryEmpty THEN 0 ELSE 1)
      + (IF SkillsEmpty THEN 0 ELSE 1)

\* identity, then bootstrap and memory when they have content
ExpectedHead ==
    _get_identity(last.now)
    \o (IF BootstrapEmpty THEN <<>> ELSE <<SEP>> \o _load_bootstrap_files)
    \o (IF MemoryEmpty THEN <<>> ELSE <<SEP, MEMORY_HEAD>> \o memory_context)

SkillsHeads == {COMPACT_HEAD, ACTIVE_HEAD, SUMMARY_HEAD}

-----------------------------------------------------------------------------
(* Claims about build_system_prompt, checked under Spec *)

\* C2: the prompt is never empty and begins with the Identity block; the
\* sections with content follow in the order identity, bootstrap, memory,
\* skills; a section without content leaves nothing in the prompt, neither
\* header nor separator; with bootstrap, memory and skills all empty the
\* prompt is exactly the Identity block.
C2_SectionsInFixedOrder ==
    BuiltPrompt =>
        LET p == last.result
            rest == SubSeq(p, Len(ExpectedHead) + 1, Len(p))
        IN  /\ p # <<>>
            /\ IsPrefix(_get_identity(last.now), p)
            /\ IsPrefix(ExpectedHead, p)
            /\ BootstrapEmpty => ~HasChunk(p, "## ")
            /\ MemoryEmpty => ~HasChunk(p, MEMORY_HEAD)
            /\ SkillsEmpty => rest = <<>> /\ \A h \in SkillsHeads : ~HasChunk(p, h)
            /\ SkillsEmpty => Count(p, SEP) = NonEmptySections - 1
            /\ ~SkillsEmpty => Len(rest) >= 2 /\ rest[1] = SEP /\ rest[2] \in SkillsHeads
            /\ (BootstrapEmpty /\ MemoryEmpty /\ SkillsEmpty)
                   => p = _get_identity(last.now)

\* C2 witness: a prompt built with bootstrap and skills present and memory empty
C2_Witness ==
    /\ BuiltPrompt
    /\ ~BootstrapEmpty /\ MemoryEmpty /\ ~SkillsEmpty
    /\ HasChunk(last.result, "## ")

\* C4 (as claimed): in compact mode a non-empty resolved list gives one
\* `# Skills` section: a names line with each distinct name once, in order, one
\* load line per distinct name in the same order, each at
\* <workspace>/skills/<name>/SKILL.md, all inside that one section, so the
\* prompt holds (non-empty sections - 1) separators; an empty list gives no
\* `# Skills` section.
C4_CompactSectionIsOneSection ==
    (BuiltPrompt /\ no_xml_skills) =>
        LET p == last.result
        IN  IF CompactSkillsEmpty
                THEN ~HasChunk(p, COMPACT_HEAD) /\ ~HasChunk(p, LOAD_HEAD)
                ELSE /\ Count(p, COMPACT_HEAD) = 1
                     /\ StrictlyIncreasing(NamesLine(p))
                     /\ set(NamesLine(p)) = set(resolved_names(last.skill_names))
                     /\ LoadNames(p) = NamesLine(p)
                     /\ LoadLinesWellFormed(p)
                     /\ Count(p, SEP) = NonEmptySections - 1

\* C4, what the code does keep: everything above but the separator count, and
\* one separator more per load line.
C4_CompactNamesAndLoadLines ==
    (BuiltPrompt /\ no_xml_skills) =>
        LET p == last.result
        IN  IF CompactSkillsEmpty
                THEN ~HasChunk(p, COMPACT_HEAD) /\ ~HasChunk(p, LOAD_HEAD)
                ELSE /\ Count(p, COMPACT_HEAD) = 1
                     /\ StrictlyIncreasing(NamesLine(p))
                     /\ set(NamesLine(p)) = set(resolved_names(last.skill_names))
                     /\ LoadNames(p) = NamesLine(p)
                     /\ LoadLinesWellFormed(p)
                     /\ Count(p, SEP) = NonEmptySections - 1 + Len(NamesLine(p))

\* C5 (as claimed): in compact mode, whenever skill_names is given the names in
\* the prompt are those of skill_names (so a subset of it); the catalog is used
\* only when skill_names is absent.
C5_GivenNamesAreUsed ==
    (BuiltPrompt /\ no_xml_skills /\ last.skill_names.some) =>
        LET p == last.result
            shown == IF HasChunk(p, COMPACT_HEAD) THEN set(NamesLine(p)) ELSE {}
        IN  /\ shown \subseteq set(last.skill_names.val)
            /\ shown = set(last.skill_names.val)

\* C6: with the flag set the prompt has no `# Active Skills` section, no skills
\* summary and no skill body; with the flag clear it has no compact names line
\* and no load line, has `# Active Skills` exactly when the always-load set and
\* its rendered content are both non-empty, has the summary section exactly
\* when the summary is non-empty, and `# Active Skills` comes first.
C6_ModesAreExclusive ==
    BuiltPrompt =>
        LET p == last.result
        IN  IF no_xml_skills
                THEN /\ ~HasChunk(p, ACTIVE_HEAD)
                     /\ ~HasChunk(p, SUMMARY_HEAD)
                     /\ \A i \in 1..Len(always_content) : ~HasChunk(p, always_content[i])
                     /\ \A i \in 1..Len(skills_summary) : ~HasChunk(p, skills_summary[i])
                ELSE /\ ~HasChunk(p, COMPACT_HEAD)
                     /\ ~HasChunk(p, LOAD_HEAD)
                     /\ Count(p, ACTIVE_HEAD) = (IF ActiveShown THEN 1 ELSE 0)
                     /\ Count(p, SUMMARY_HEAD) = (IF skills_summary # <<>> THEN 1 ELSE 0)
                     /\ ActiveShown =>
                            LET a == FirstIndex(p, ACTIVE_HEAD)
                            IN  SubSeq(p, a + 1, a + Len(always_content)) = always_content
                     /\ skills_summary # <<>> =>
                            IsSuffix(<<SUMMARY_HEAD>> \o skills_summary, p)
                     /\ (ActiveShown /\ skills_summary # <<>>) =>
                            FirstIndex(p, ACTIVE_HEAD) < FirstIndex(p, SUMMARY_HEAD)

\* C6 witness: a progressive-mode prompt holding both skills sections
C6_Witness ==
    /\ BuiltPrompt /\ ~no_xml_skills
    /\ HasChunk(last.result, ACTIVE_HEAD)
    /\ HasChunk(last.result, SUMMARY_HEAD)

-----------------------------------------------------------------------------
(* Claims about add_assistant_message, checked under SpecTurns *)

AssistantFields == {"role", "content", "tool_calls", "reasoning_content"}

\* C9: add_assistant_message returns the prior list, unchanged and in order,
\* extended by exactly one assistant message; its content is always present
\* (the given content, "" when absent), tool_calls is present exactly when the
\* given list is non-empty, reasoning_content is present exactly when the given
\* text is non-empty and not None, and then equals it.
C9_AssistantTurnAppended ==
    last.op = "add_assistant_message" =>
        LET r == last.result
            m == r[Len(r)]
        IN  /\ r = messages
            /\ Len(r) = Len(last.messages) + 1
            /\ SubSeq(r, 1, Len(last.messages)) = last.messages
            /\ DOMAIN m \subseteq AssistantFields
            /\ {"role", "content"} \subseteq DOMAIN m
            /\ m.role = "assistant"
            /\ m.content = (IF last.content.some
                                THEN PyStr(last.content.val) ELSE PyStr(<<>>))
            /\ ("tool_calls" \in DOMAIN m)
                   <=> (last.tool_calls.some /\ last.tool_calls.val # <<>>)
            /\ ("tool_calls" \in DOMAIN m) => m.tool_calls = last.tool_calls.val
            /\ ("reasoning_content" \in DOMAIN m)
                   <=> (last.reasoning_content.some /\ last.reasoning_content.val # <<>>)
            /\ ("reasoning_content" \in DOMAIN m)
                   => m.reasoning_content = last.reasoning_content.val

\* C9 witness: "hi" with reasoning "think" and no tool calls, appended after an
\* earlier message
C9_Witness ==
    /\ last.op = "add_assistant_message"
    /\ last.messages # <<>>
    /\ last.content = Some(<<"hi">>)
    /\ last.tool_calls = None
    /\ last.reasoning_content = Some(<<"think">>)
    /\ "tool_calls" \notin DOMAIN messages[Len(messages)]
    /\ messages[Len(messages)].reasoning_content = <<"think">>

-----------------------------------------------------------------------------
(* Claims about _build_user_content, checked under SpecMedia *)

EncodedMedia == last.op = "_build_user_content"

IsImagePath(path) == path.ext \in {".png", ".jpg"}

\* the paths of the media list that are regular files with an image/ MIME type
SurvivingPaths ==
    IF input.media.some
        THEN SelectSeq(input.media.val,
                       LAMBDA path : fs[path] \in {"file", "locked"} /\ IsImagePath(path))
        ELSE <<>>

\* those of them that can be read
ReadablePaths ==
    IF input.media.some
        THEN SelectSeq(input.media.val,
                       LAMBDA path : fs[path] = "file" /\ IsImagePath(path))
        ELSE <<>>

\* the data URI of each image file, written out
ExpectedUrl(path) ==
    IF path.ext = ".png"
        THEN <<"data:", "image/", "png", ";base64,", "i", "V", "B", "O", "R", "w", "=", "=">>
        ELSE <<"data:", "image/", "jpeg", ";base64,", "/", "9", "g", "=">>

\* content is the block sequence for `paths`: one image block per path, in
\* order, then one text block holding the text
IsBlocksFor(content, paths) ==
    /\ content.py = "list"
    /\ Len(content.val) = Len(paths) + 1
    /\ \A i \in 1..Len(paths) :
           content.val[i] = [type |-> "image_url",
                             image_url |-> [url |-> ExpectedUrl(paths[i])]]
    /\ content.val[Len(paths) + 1] = [type |-> "text", text |-> input.text]

\* C7 (as claimed): for every text and media list the encoder's result is the
\* text itself, as plain text, exactly when the list is absent, empty or has no
\* surviving path, and otherwise one image block per surviving path in input
\* order followed by one text block; a path survives only if it is a regular
\* file with an image/ MIME type.
C7_ContentShape ==
    EncodedMedia =>
        /\ ~last.result.raised
        /\ IF SurvivingPaths = <<>>
               THEN last.result.val = PyStr(input.text)
               ELSE IsBlocksFor(last.result.val, SurvivingPaths)

\* C7, what the code does keep: the same whenever every surviving path can be
\* read; a surviving path that cannot be read makes the call raise.
C7_ContentShapeWhenReadable ==
    EncodedMedia =>
        IF SurvivingPaths = ReadablePaths
            THEN /\ ~last.result.raised
                 /\ IF SurvivingPaths = <<>>
                        THEN last.result.val = PyStr(input.text)
                        ELSE IsBlocksFor(last.result.val, SurvivingPaths)
            ELSE last.result = Raise("PermissionError")

\* C8 (as claimed): the encoder never raises; a missing, unreadable,
\* unknown-type or non-image path is skipped and the other paths of the list
\* are still encoded.
C8_NeverRaises ==
    EncodedMedia =>
        /\ ~last.result.raised
        /\ IF ReadablePaths = <<>>
               THEN last.result.val = PyStr(input.text)
               ELSE IsBlocksFor(last.result.val, ReadablePaths)

-----------------------------------------------------------------------------
(* Claims about build_messages, checked under SpecMessages *)

BuiltMessages == last.op = "build_messages"

\* C1 (as claimed): for every history, current message and optional arguments
\* build_messages returns len(history) + 2 messages: one system message with
\* plain-text content, then the history unmodified and in order, then one user
\* message; it adds no other message.
C1_MessageListShape ==
    BuiltMessages =>
        /\ ~last.result.raised
        /\ LET r == last.result.val
               n == Len(input.history)
           IN  /\ Len(r) = n + 2
               /\ DOMAIN r[1] = {"role", "content"}
               /\ r[1].role = "system"
               /\ r[1].content.py = "str"
               /\ SubSeq(r, 2, n + 1) = input.history
               /\ DOMAIN r[n + 2] = {"role", "content"}
               /\ r[n + 2].role = "user"

\* C1, what the code does keep: the same for every call that returns.
C1_MessageListShapeWhenReturned ==
    (BuiltMessages /\ ~last.result.raised) =>
        LET r == last.result.val
            n == Len(input.history)
        IN  /\ Len(r) = n + 2
            /\ DOMAIN r[1] = {"role", "content"}
            /\ r[1].role = "system"
            /\ r[1].content.py = "str"
            /\ SubSeq(r, 2, n + 1) = input.history
            /\ DOMAIN r[n + 2] = {"role", "content"}
            /\ r[n + 2].role = "user"

SystemText == last.result.val[1].content.val

Footer ==
    <<"\n\n## Current Session\nChannel: ">> \o input.channel.val
    \o <<"\nChat ID: ">> \o input.chat_id.val

\* C3 (as claimed): the system text is the build_system_prompt output followed
\* by the session footer, carrying the given channel and chat id, if and only
\* if both channel and chat_id are supplied; otherwise it is that output with
\* nothing appended.
C3_FooterIffBothSupplied ==
    (BuiltMessages /\ ~last.result.raised) =>
        IF input.channel.some /\ input.chat_id.some
            THEN SystemText = build_system_prompt(input.skill_names, clock) \o Footer
            ELSE SystemText = build_system_prompt(input.skill_names, clock)

\* C3 (amended): ... if and only if both channel and chat_id are supplied and
\* neither is the empty string; otherwise (one absent or empty) it is that
\* output with nothing appended.
C3_FooterIffBothNonEmpty ==
    (BuiltMessages /\ ~last.result.raised) =>
        IF /\ input.channel.some /\ input.channel.val # <<>>
           /\ input.chat_id.some /\ input.chat_id.val # <<>>
            THEN /\ SystemText = build_system_prompt(input.skill_names, clock) \o Footer
                 /\ IsSuffix(<<"\n\n## Current Session\nChannel: ", "telegram",
                               "\nChat ID: ", "42">>, SystemText)
            ELSE /\ SystemText = build_system_prompt(input.skill_names, clock)
                 /\ ~HasChunk(SystemText, "\n\n## Current Session\nChannel: ")

\* C3 witness: history [], "hello", channel telegram, chat id 42: two messages,
\* the system text ending with the footer, then the user message "hello"
C3_Witness ==
    /\ BuiltMessages /\ ~last.result.raised
    /\ input.history = <<>>
    /\ input.current_message = <<"hello">>
    /\ input.channel = Some(<<"telegram">>)
    /\ input.chat_id = Some(<<"42">>)
    /\ Len(last.result.val) = 2
    /\ IsSuffix(<<"\n\n## Current Session\nChannel: ", "telegram", "\nChat ID: ", "42">>,
                SystemText)
    /\ last.result.val[2] = [role |-> "user", content |-> PyStr(<<"hello">>)]

====
